---- MODULE Spec2Model ----
(***************************************************************************)
(* Model of the retrieval-augmented chat backend:                          *)
(*   backend/app/api/routers/chat.py   the chat endpoint and its streaming *)
(*                                     transport (event_generator)         *)
(*   backend/app/engine/workflow.py    the ChatEngine workflow             *)
(*   backend/app/engine/__init__.py    get_chat_engine                     *)
(* One run: a request (or a direct ChatEngine.run call) starts the         *)
(* producer, which walks setup -> retrieve -> post_process -> synthesize   *)
(* and writes events to the streaming queue; event_generator is the        *)
(* consumer.  Producer and consumer interleave at the awaits of the code.  *)
(***************************************************************************)
EXTENDS Integers, Sequences, FiniteSets, TLC

\* ------------------------------------------------------------------ bounds
MaxMsgs == 2        \* longest message list of a request
MaxChunks == 2      \* most chunks the language model streams in a run

\* ------------------------------------------------------- program constants
TOP_K == 3          \* default similarity_top_k

\* ------------------------------------------------------------ value spaces
NoneStr == "<None>"                       \* Python's None where a str is optional
Roles == {"user", "assistant", "system"}  \* MessageRole values of a request
Contents == {"a", "b"}                    \* message contents
SystemPrompts == {NoneStr, "", "SYS"}     \* os.getenv("SYSTEM_PROMPT")

RECURSIVE SeqsUpTo(_, _)
SeqsUpTo(S, n) ==
    IF n = 0 THEN {<<>>}
    ELSE LET shorter == SeqsUpTo(S, n - 1)
         IN  shorter \cup {Append(s, x) : s \in {t \in shorter : Len(t) = n - 1}, x \in S}

_Message == [role : Roles, content : Contents]
_ChatData == SeqsUpTo(_Message, MaxMsgs)

ChatMessage(role, content) == [role |-> role, content |-> content]

CONTEXT_PROMPT(context, message) ==
    "Here is some extra context from a knowledge base that may help you assist the user with their latest message.\n"
    \o "If you don't know the answer, just say so. Don't try to make up an answer."
    \o "\n-----\n" \o context \o "\n-----\n"
    \o "Latest message: " \o message

stream_part_types(t) ==
    CASE t = "text" -> "0"
      [] t = "function_call" -> "1"
      [] t = "data" -> "2"
      [] t = "error" -> "3"
      [] t = "assistant_message" -> "4"
      [] t = "assistant_data_stream_part" -> "5"
      [] t = "data_stream_part" -> "6"
      [] t = "message_annotations_stream_part" -> "7"

\* ------------------------------------------------------------------ events
ProgressEvent(status, message, type) ==
    [cls |-> "ProgressEvent", type |-> type, status |-> status, message |-> message]

StopEvent == [cls |-> "StopEvent"]

IsProgressEvent(ev) == ev.cls = "ProgressEvent"

RetrieveLoading == ProgressEvent("loading", "Retrieving relevant nodes...", "data")

RetrieveDone(n) ==
    ProgressEvent("done", "Retrieved " \o ToString(n) \o " relevant nodes for context.", "data")

SynthesizeLoading == ProgressEvent("loading", "Synthesizing response...", "data")

SynthesizeDone == ProgressEvent("done", "Finished creating response stream.", "data")

TextChunk(delta) == ProgressEvent("loading", delta, "text")

\* ctx.write_event_to_stream: put_nowait on the run's streaming queue
write_event_to_stream(q, ev) == Append(q, ev)

\* ------------------------------------------------------------ collaborators
\* the i-th node the retriever returns, and the i-th delta the model streams
NodeContent(i) == "node" \o ToString(i)
Delta(i) == "d" \o ToString(i)

RetrievedNodes(k) == [i \in 1..k |-> NodeContent(i)]

\* variant: the last chunk's delta in place of the accumulated text
AccumulatedLastDelta(n) == IF n = 0 THEN "" ELSE Delta(n)

\* chunk.message.content: the text accumulated over the chunks so far
RECURSIVE Accumulated(_)
Accumulated(n) == IF n = 0 THEN "" ELSE Accumulated(n - 1) \o Delta(n)

\* TokenCounter: a character-level tokenizer stands for the real one
get_string_tokens(s) == Len(s)

RECURSIVE estimate_tokens_in_messages(_)
estimate_tokens_in_messages(ms) ==
    IF ms = <<>> THEN 0
    ELSE get_string_tokens(Head(ms).content) + estimate_tokens_in_messages(Tail(ms))

\* --------------------------------------------------------------- variables
VARIABLES
    system_prompt,    \* ChatEngine.system_prompt
    data_messages,    \* the request body's messages, as received
    http,             \* "pending", "400", "streaming", "direct"
    detail,           \* detail string of the HTTP 400 response
    startEv,          \* the StartEvent's keyword arguments
    pc,               \* the producer's position in the workflow
    stages,           \* the steps entered so far, in order
    memory,           \* ctx "memory": the buffer's chat history
    ev,               \* the event handed to the next step
    chat_history,     \* the message list built by synthesize
    nchunks,          \* chunks received from response_gen so far
    streaming_queue,  \* events written and not yet consumed
    written,          \* every event written to the stream, in order
    handler,          \* the run's future: state, result, exception
    retrieverCalls,   \* calls of retriever.aretrieve
    llmCalls,         \* calls of llm.astream_chat
    gpc,              \* event_generator's position
    disconnected,     \* the client has gone away
    consumed,         \* per event taken by event_generator: what it did
    lines             \* the lines event_generator yielded, in order

vars == <<system_prompt, data_messages, http, detail, startEv, pc, stages, memory,
          ev, chat_history, nchunks, streaming_queue, written, handler,
          retrieverCalls, llmCalls, gpc, disconnected, consumed, lines>>

NoStartEv == [has_query |-> FALSE, query |-> NoneStr, has_messages |-> FALSE, messages |-> <<>>]

NoEvent == [cls |-> "none", query |-> NoneStr, nodes |-> <<>>]

RetrieveEvent(query) == [cls |-> "RetrieveEvent", query |-> query, nodes |-> <<>>]

PostProcessEvent(query, ns) == [cls |-> "PostProcessEvent", query |-> query, nodes |-> ns]

SynthesizeEvent(query, ns) == [cls |-> "SynthesizeEvent", query |-> query, nodes |-> ns]

NoHandler == [state |-> "none", exception |-> NoneStr,
              query |-> NoneStr, messages |-> <<>>, response |-> NoneStr, source_nodes |-> <<>>]

\* get_chat_engine builds the engine; nothing has been requested yet
Init ==
    /\ system_prompt \in SystemPrompts
    /\ data_messages = <<>>
    /\ http = "pending"
    /\ detail = NoneStr
    /\ startEv = NoStartEv
    /\ pc = "idle"
    /\ stages = <<>>
    /\ memory = <<>>
    /\ ev = NoEvent
    /\ chat_history = <<>>
    /\ nchunks = 0
    /\ streaming_queue = <<>>
    /\ written = <<>>
    /\ handler = NoHandler
    /\ retrieverCalls = 0
    /\ llmCalls = 0
    /\ gpc = "idle"
    /\ disconnected = FALSE
    /\ consumed = <<>>
    /\ lines = <<>>

\* ------------------------------------------------------------ the endpoint
\* chat_engine.run(**kwargs): the StartEvent is sent and the run's task starts
run(kwargs) ==
    /\ startEv' = kwargs
    /\ pc' = "setup"
    /\ handler' = [NoHandler EXCEPT !.state = "running"]

NoMessages(msgs) == Len(msgs) = 0

\* variant: only an assistant's last message is refused
LastIsAssistant(lastMessage) == lastMessage.role = "assistant"

LastNotUser(lastMessage) == lastMessage.role # "user"

\* data.messages.pop(): the last message, and the list without it
PopLast(msgs) == msgs[Len(msgs)]
\* variant: the last message is read but not removed
PopRestKeepsLast(msgs) == msgs

PopRest(msgs) == SubSeq(msgs, 1, Len(msgs) - 1)

ChatKwargs(msgs) ==
    [has_query |-> TRUE, query |-> PopLast(msgs).content,
     has_messages |-> TRUE,
     messages |-> [i \in 1..Len(PopRest(msgs)) |->
                     ChatMessage(PopRest(msgs)[i].role, PopRest(msgs)[i].content)]]

chat ==
    /\ http = "pending"
    /\ \E data \in _ChatData :
        /\ data_messages' = data
        /\ IF NoMessages(data)
           THEN /\ http' = "400"
                /\ detail' = "No messages provided"
                /\ UNCHANGED <<startEv, pc, handler, gpc>>
           ELSE IF LastNotUser(PopLast(data))
           THEN /\ http' = "400"
                /\ detail' = "Last message must be from user"
                /\ UNCHANGED <<startEv, pc, handler, gpc>>
           ELSE /\ run(ChatKwargs(data))
                /\ http' = "streaming"
                /\ gpc' = "loop"
                /\ UNCHANGED detail
    /\ UNCHANGED <<system_prompt, stages, memory, ev, chat_history, nchunks,
                   streaming_queue, written, retrieverCalls, llmCalls,
                   disconnected, consumed, lines>>

\* ChatEngine.run called directly, with any of its keyword arguments left out
DirectKwargs ==
    {[has_query |-> hq, query |-> IF hq THEN "a" ELSE NoneStr,
      has_messages |-> hm, messages |-> <<>>] : hq \in BOOLEAN, hm \in BOOLEAN}

run_direct ==
    /\ http = "pending"
    /\ \E kwargs \in DirectKwargs : run(kwargs)
    /\ http' = "direct"
    /\ UNCHANGED <<system_prompt, data_messages, detail, stages, memory, ev,
                   chat_history, nchunks, streaming_queue, written,
                   retrieverCalls, llmCalls, gpc, disconnected, consumed, lines>>

\* ------------------------------------------------------------ the workflow
\* a step returned StopEvent(result=...): the event goes to the stream and
\* the run's future gets the result
Finish(result) ==
    /\ pc' = "done"
    /\ streaming_queue' = write_event_to_stream(streaming_queue, StopEvent)
    /\ written' = write_event_to_stream(written, StopEvent)
    /\ handler' = [state |-> "done", exception |-> NoneStr,
                   query |-> result.query, messages |-> result.messages,
                   response |-> result.response, source_nodes |-> result.source_nodes]

\* a step raised: the run stops, the stream is closed with a StopEvent and
\* the run's future gets the exception
Raise(exception) ==
    /\ pc' = "failed"
    /\ streaming_queue' = write_event_to_stream(streaming_queue, StopEvent)
    /\ written' = write_event_to_stream(written, StopEvent)
    /\ handler' = [NoHandler EXCEPT !.state = "failed", !.exception = exception]

Emit(event) ==
    /\ streaming_queue' = write_event_to_stream(streaming_queue, event)
    /\ written' = write_event_to_stream(written, event)

\* ChatMemoryBuffer.from_defaults(chat_history=messages): the buffer's turns
\* are the messages it is seeded with
from_defaults(messages) == messages

\* variant: "and" in place of "or"
InputsBothMissing(kwargs) == ~kwargs.has_query /\ ~kwargs.has_messages

\* ev.get("query") is None or ev.get("messages") is None
InputsMissing(kwargs) == ~kwargs.has_query \/ ~kwargs.has_messages

setup ==
    /\ pc = "setup"
    /\ stages' = Append(stages, "setup")
    /\ IF InputsMissing(startEv)
       THEN /\ Raise("ValueError")
            /\ UNCHANGED <<memory, ev>>
       ELSE /\ memory' = from_defaults(startEv.messages)
            /\ ev' = RetrieveEvent(startEv.query)
            /\ pc' = "retrieve"
            /\ UNCHANGED <<streaming_queue, written, handler>>
    /\ UNCHANGED <<system_prompt, data_messages, http, detail, startEv, chat_history,
                   nchunks, retrieverCalls, llmCalls, gpc, disconnected, consumed, lines>>

\* variant: the loading event is not written
retrieve_begin_silent ==
    /\ pc = "retrieve"
    /\ stages' = Append(stages, "retrieve")
    /\ retrieverCalls' = retrieverCalls + 1
    /\ pc' = "aretrieve"
    /\ UNCHANGED <<system_prompt, data_messages, http, detail, startEv, memory, ev,
                   chat_history, nchunks, streaming_queue, written, handler, llmCalls,
                   gpc, disconnected, consumed, lines>>

\* retrieve up to the await of retriever.aretrieve(query)
retrieve_begin ==
    /\ pc = "retrieve"
    /\ stages' = Append(stages, "retrieve")
    /\ Emit(RetrieveLoading)
    /\ retrieverCalls' = retrieverCalls + 1
    /\ pc' = "aretrieve"
    /\ UNCHANGED <<system_prompt, data_messages, http, detail, startEv, memory, ev,
                   chat_history, nchunks, handler, llmCalls, gpc, disconnected,
                   consumed, lines>>

\* the retriever returns k <= top_k nodes
retrieve_return ==
    /\ pc = "aretrieve"
    /\ \E k \in 0..TOP_K :
        /\ Emit(RetrieveDone(Len(RetrievedNodes(k))))
        /\ ev' = PostProcessEvent(ev.query, RetrievedNodes(k))
    /\ pc' = "post_process"
    /\ UNCHANGED <<system_prompt, data_messages, http, detail, startEv, stages, memory,
                   chat_history, nchunks, handler, retrieverCalls, llmCalls, gpc,
                   disconnected, consumed, lines>>

\* variant: a failed retrieval is tried again
retrieve_retry ==
    /\ pc = "aretrieve"
    /\ pc' = "retrieve"
    /\ UNCHANGED <<system_prompt, data_messages, http, detail, startEv, stages, memory,
                   ev, chat_history, nchunks, streaming_queue, written, handler,
                   retrieverCalls, llmCalls, gpc, disconnected, consumed, lines>>

\* the retriever fails
retrieve_raise ==
    /\ pc = "aretrieve"
    /\ Raise("RetrieverError")
    /\ UNCHANGED <<system_prompt, data_messages, http, detail, startEv, stages, memory,
                   ev, chat_history, nchunks, retrieverCalls, llmCalls, gpc,
                   disconnected, consumed, lines>>

\* variant: the step reports its own progress
post_process_emits ==
    /\ pc = "post_process"
    /\ stages' = Append(stages, "post_process")
    /\ Emit(ProgressEvent("loading", "Post processing nodes...", "data"))
    /\ ev' = SynthesizeEvent(ev.query, ev.nodes)
    /\ pc' = "synthesize"
    /\ UNCHANGED <<system_prompt, data_messages, http, detail, startEv, memory,
                   chat_history, nchunks, handler, retrieverCalls, llmCalls, gpc,
                   disconnected, consumed, lines>>

\* variant: the step hands the nodes back to retrieve
post_process_again ==
    /\ pc = "post_process"
    /\ stages' = Append(stages, "post_process")
    /\ ev' = RetrieveEvent(ev.query)
    /\ pc' = "retrieve"
    /\ UNCHANGED <<system_prompt, data_messages, http, detail, startEv, memory,
                   chat_history, nchunks, streaming_queue, written, handler,
                   retrieverCalls, llmCalls, gpc, disconnected, consumed, lines>>

post_process ==
    /\ pc = "post_process"
    /\ stages' = Append(stages, "post_process")
    /\ ev' = SynthesizeEvent(ev.query, ev.nodes)
    /\ pc' = "synthesize"
    /\ UNCHANGED <<system_prompt, data_messages, http, detail, startEv, memory,
                   chat_history, nchunks, streaming_queue, written, handler,
                   retrieverCalls, llmCalls, gpc, disconnected, consumed, lines>>

\* "\n\n".join(contents)
RECURSIVE Join(_)
Join(ss) ==
    IF ss = <<>> THEN ""
    ELSE IF Len(ss) = 1 THEN ss[1]
    ELSE ss[1] \o "\n\n" \o Join(Tail(ss))

\* memory.get(query): a new list holding the buffer's history, or only its
\* newest messages when the history exceeds the buffer's token limit; the
\* limit comes from the model's context window, so how many messages are
\* kept is open here
memory_get(mem, kept) == SubSeq(mem, Len(mem) - kept + 1, Len(mem))

\* variant: only None counts as no prompt
HasSystemPromptNotNone(p) == p # NoneStr

\* if self.system_prompt: (None and "" are both false)
HasSystemPrompt(p) == p # NoneStr /\ p # ""

\* variant: the user's message is appended as it came, without the context
BuildChatHistoryPlainQuery(history, query, ns, prompt) ==
    LET appended == Append(history, ChatMessage("user", query))
    IN  IF HasSystemPrompt(prompt)
        THEN <<ChatMessage("system", prompt)>> \o appended
        ELSE appended

\* the message list synthesize sends to the model
BuildChatHistory(history, query, ns, prompt) ==
    LET context_str == Join(ns)
        context_query == CONTEXT_PROMPT(context_str, query)
        appended == Append(history, ChatMessage("user", context_query))
    IN  IF HasSystemPrompt(prompt)
        THEN <<ChatMessage("system", prompt)>> \o appended
        ELSE appended

\* synthesize up to the await of llm.astream_chat(chat_history)
synthesize_begin ==
    /\ pc = "synthesize"
    /\ stages' = Append(stages, "synthesize")
    /\ Emit(SynthesizeLoading)
    /\ \E kept \in 0..Len(memory) :
          chat_history' = BuildChatHistory(memory_get(memory, kept), ev.query, ev.nodes,
                                           system_prompt)
    /\ llmCalls' = llmCalls + 1
    /\ pc' = "astream_chat"
    /\ UNCHANGED <<system_prompt, data_messages, http, detail, startEv, memory, ev,
                   nchunks, handler, retrieverCalls, gpc, disconnected, consumed, lines>>

\* the model hands back response_gen
synthesize_opened ==
    /\ pc = "astream_chat"
    /\ Emit(SynthesizeDone)
    /\ pc' = "streaming"
    /\ UNCHANGED <<system_prompt, data_messages, http, detail, startEv, stages, memory,
                   ev, chat_history, nchunks, handler, retrieverCalls, llmCalls, gpc,
                   disconnected, consumed, lines>>

\* the model fails: at astream_chat, or while response_gen is iterated
synthesize_raise ==
    /\ pc \in {"astream_chat", "streaming"}
    /\ Raise("LLMError")
    /\ UNCHANGED <<system_prompt, data_messages, http, detail, startEv, stages, memory,
                   ev, chat_history, nchunks, retrieverCalls, llmCalls, gpc,
                   disconnected, consumed, lines>>

\* async for chunk in response_gen: one more chunk
synthesize_chunk ==
    /\ pc = "streaming"
    /\ nchunks < MaxChunks
    /\ nchunks' = nchunks + 1
    /\ Emit(TextChunk(Delta(nchunks + 1)))
    /\ UNCHANGED <<system_prompt, data_messages, http, detail, startEv, pc, stages,
                   memory, ev, chat_history, handler, retrieverCalls, llmCalls, gpc,
                   disconnected, consumed, lines>>

\* chunk is bound only once the loop body has run
ChunkUnbound(n) == n = 0

\* response_gen is exhausted: return StopEvent(result={...})
synthesize_return ==
    /\ pc = "streaming"
    /\ IF ChunkUnbound(nchunks)
       THEN Raise("UnboundLocalError")
       ELSE Finish([query |-> ev.query, messages |-> chat_history,
                    response |-> Accumulated(nchunks), source_nodes |-> ev.nodes])
    /\ UNCHANGED <<system_prompt, data_messages, http, detail, startEv, stages, memory,
                   ev, chat_history, nchunks, retrieverCalls, llmCalls, gpc,
                   disconnected, consumed, lines>>

\* ----------------------------------------------------------- the transport
\* variant: the newest event is handed out first
NextEventNewest(q) == q[Len(q)]

\* handler.stream_events(): the next event is the oldest one in the queue
NextEvent(q) == Head(q)

\* event.model_dump(): the event's fields
model_dump(event) == [type |-> event.type, status |-> event.status, message |-> event.message]

\* variant: text events are serialized like the others
RenderAlwaysArray(event) ==
    [code |-> stream_part_types(event.type), payload |-> [json_array |-> <<model_dump(event)>>]]

\* the line yielded for a ProgressEvent: "<code>:<json payload>\n"
Render(event) ==
    IF event.type = "text"
    THEN [code |-> stream_part_types(event.type), payload |-> [json_string |-> event.message]]
    ELSE [code |-> stream_part_types(event.type), payload |-> [json_array |-> <<model_dump(event)>>]]

\* the final line: "2:Input tokens: N, output tokens: M\n"
SummaryLine(final_result) ==
    LET input_tokens == estimate_tokens_in_messages(final_result.messages)
        output_tokens == get_string_tokens(final_result.response)
    IN  [code |-> stream_part_types("data"),
         payload |-> [plain |-> "Input tokens: " \o ToString(input_tokens)
                                \o ", output tokens: " \o ToString(output_tokens)]]

\* variant: the disconnect check is left out
LoopNeverBreaks(is_disconnected) == FALSE

\* variant: the disconnect check is inverted
LoopBreaksInverted(is_disconnected) == ~is_disconnected

\* if await request.is_disconnected(): break
LoopBreaks(is_disconnected) == is_disconnected

\* variant: an event that is no ProgressEvent ends the loop
AfterContinueBreaks(event) == "await_handler"

\* continue: back to the loop head, where the stream has ended if the event
\* just handed out was the StopEvent
AfterContinue(event) == IF event = StopEvent THEN "await_handler" ELSE "loop"

\* variant: on a disconnect the transport cancels the run before it breaks
event_generator_next_cancels ==
    /\ gpc = "loop"
    /\ streaming_queue # <<>>
    /\ LET event == NextEvent(streaming_queue)
           is_disconnected == disconnected
       IN  /\ streaming_queue' = Tail(streaming_queue)
           /\ IF LoopBreaks(is_disconnected)
              THEN /\ gpc' = "await_handler"
                   /\ consumed' = Append(consumed, [event |-> event,
                                                    is_disconnected |-> is_disconnected,
                                                    yielded |-> FALSE])
                   /\ pc' = IF pc \in {"done", "failed"} THEN pc ELSE "failed"
                   /\ handler' = IF pc \in {"done", "failed"} THEN handler
                                 ELSE [NoHandler EXCEPT !.state = "failed",
                                                        !.exception = "CancelledError"]
                   /\ UNCHANGED lines
              ELSE IF ~IsProgressEvent(event)
              THEN /\ gpc' = AfterContinue(event)
                   /\ consumed' = Append(consumed, [event |-> event,
                                                    is_disconnected |-> is_disconnected,
                                                    yielded |-> FALSE])
                   /\ UNCHANGED <<lines, pc, handler>>
              ELSE /\ lines' = Append(lines, Render(event))
                   /\ consumed' = Append(consumed, [event |-> event,
                                                    is_disconnected |-> is_disconnected,
                                                    yielded |-> TRUE])
                   /\ UNCHANGED <<gpc, pc, handler>>
    /\ UNCHANGED <<system_prompt, data_messages, http, detail, startEv, stages,
                   memory, ev, chat_history, nchunks, written,
                   retrieverCalls, llmCalls, disconnected>>

\* one iteration of "async for event in handler.stream_events()"; the stream
\* ends once it has handed out the StopEvent
event_generator_next ==
    /\ gpc = "loop"
    /\ streaming_queue # <<>>
    /\ LET event == NextEvent(streaming_queue)
           is_disconnected == disconnected
       IN  /\ streaming_queue' = Tail(streaming_queue)
           /\ IF LoopBreaks(is_disconnected)
              THEN /\ gpc' = "await_handler"
                   /\ consumed' = Append(consumed, [event |-> event,
                                                    is_disconnected |-> is_disconnected,
                                                    yielded |-> FALSE])
                   /\ UNCHANGED lines
              ELSE IF ~IsProgressEvent(event)
              THEN /\ gpc' = AfterContinue(event)
                   /\ consumed' = Append(consumed, [event |-> event,
                                                    is_disconnected |-> is_disconnected,
                                                    yielded |-> FALSE])
                   /\ UNCHANGED lines
              ELSE /\ lines' = Append(lines, Render(event))
                   /\ consumed' = Append(consumed, [event |-> event,
                                                    is_disconnected |-> is_disconnected,
                                                    yielded |-> TRUE])
                   /\ UNCHANGED gpc
    /\ UNCHANGED <<system_prompt, data_messages, http, detail, startEv, pc, stages,
                   memory, ev, chat_history, nchunks, written, handler,
                   retrieverCalls, llmCalls, disconnected>>

\* final_result = await handler, and what follows it
event_generator_final ==
    /\ gpc = "await_handler"
    /\ handler.state \in {"done", "failed"}
    /\ IF handler.state = "done"
       THEN /\ lines' = Append(lines, SummaryLine(handler))
            /\ gpc' = "done"
       ELSE /\ gpc' = "raised"
            /\ UNCHANGED lines
    /\ UNCHANGED <<system_prompt, data_messages, http, detail, startEv, pc, stages,
                   memory, ev, chat_history, nchunks, streaming_queue, written,
                   handler, retrieverCalls, llmCalls, disconnected, consumed>>

\* the client goes away while the response is streamed
client_disconnect ==
    /\ http = "streaming"
    /\ gpc = "loop"
    /\ ~disconnected
    /\ disconnected' = TRUE
    /\ UNCHANGED <<system_prompt, data_messages, http, detail, startEv, pc, stages,
                   memory, ev, chat_history, nchunks, streaming_queue, written,
                   handler, retrieverCalls, llmCalls, gpc, consumed, lines>>

Next ==
    \/ chat
    \/ run_direct
    \/ setup
    \/ retrieve_begin
    \/ retrieve_return
    \/ retrieve_raise
    \/ post_process
    \/ synthesize_begin
    \/ synthesize_opened
    \/ synthesize_raise
    \/ synthesize_chunk
    \/ synthesize_return
    \/ event_generator_next
    \/ event_generator_final
    \/ client_disconnect

Spec == Init /\ [][Next]_vars

\* ------------------------------------------------------- derived quantities
IsSummaryLine(l) == "plain" \in DOMAIN l.payload

IsProgressLine(l) == ~IsSummaryLine(l)

ProgressLines == SelectSeq(lines, IsProgressLine)

SummaryLines == SelectSeq(lines, IsSummaryLine)

WrittenProgress == SelectSeq(written, IsProgressEvent)

\* the first check at which is_disconnected() returned true, 0 if none did
FirstDisconnectCheck ==
    IF \E i \in DOMAIN consumed : consumed[i].is_disconnected
    THEN CHOOSE i \in DOMAIN consumed :
            /\ consumed[i].is_disconnected
            /\ \A j \in 1..(i - 1) : ~consumed[j].is_disconnected
    ELSE 0

DisconnectObserved == FirstDisconnectCheck # 0

LoopEnded == gpc \in {"await_handler", "done", "raised"}

\* line l is the line of event e: its type's code, and e's fields as payload
LineOf(l, e) ==
    IF e.type = "text"
    THEN /\ l.code = "0"
         /\ DOMAIN l.payload = {"json_string"}
         /\ l.payload.json_string = e.message
    ELSE /\ l.code = "2"
         /\ DOMAIN l.payload = {"json_array"}
         /\ Len(l.payload.json_array) = 1
         /\ l.payload.json_array[1].status = e.status
         /\ l.payload.json_array[1].message = e.message
         /\ l.payload.json_array[1].type = e.type

IsRetrieveLoading(e) ==
    IsProgressEvent(e) /\ e.type = "data" /\ e.status = "loading"
        /\ e.message = "Retrieving relevant nodes..."

IsRetrieveDone(e) ==
    IsProgressEvent(e) /\ e.type = "data" /\ e.status = "done"
        /\ \E k \in 0..TOP_K :
              e.message = "Retrieved " \o ToString(k) \o " relevant nodes for context."

IsSynthesizeLoading(e) ==
    IsProgressEvent(e) /\ e.type = "data" /\ e.status = "loading"
        /\ e.message = "Synthesizing response..."

IsSynthesizeDone(e) ==
    IsProgressEvent(e) /\ e.type = "data" /\ e.status = "done"
        /\ e.message = "Finished creating response stream."

IsText(e) == IsProgressEvent(e) /\ e.type = "text"

\* every event satisfying Q was written strictly after one satisfying P
Precedes(P(_), Q(_)) ==
    \A i \in DOMAIN written :
        Q(written[i]) => \E j \in 1..(i - 1) : P(written[j])

AtMostOnce(P(_)) == Cardinality({i \in DOMAIN written : P(written[i])}) <= 1

RequestRejectable == NoMessages(data_messages) \/ data_messages[Len(data_messages)].role # "user"

\* ------------------------------------------------------------------ claims

\* C1: while the client never disconnects, the lines emitted before the
\* summary line are the lines of the ProgressEvents written to the stream,
\* one for one and in the same order; once the loop has ended none is missing.
C1_LinesMirrorEvents ==
    ~disconnected =>
        /\ Len(ProgressLines) <= Len(WrittenProgress)
        /\ \A i \in DOMAIN ProgressLines : LineOf(ProgressLines[i], WrittenProgress[i])
        /\ LoopEnded => Len(ProgressLines) = Len(WrittenProgress)
        /\ \A i \in DOMAIN lines : IsSummaryLine(lines[i]) => i = Len(lines)

C1_Witness ==
    /\ gpc = "done"
    /\ ~disconnected
    /\ nchunks = 2
    /\ Len(ProgressLines) = 6

\* C2 (as claimed): once is_disconnected() has returned true, the transport
\* never awaits the final result and never emits the summary line.
C2_NoAwaitAfterDisconnect ==
    DisconnectObserved =>
        /\ gpc \notin {"await_handler", "done", "raised"}
        /\ SummaryLines = <<>>

\* C3: once is_disconnected() returned true for an event, neither that event
\* nor any later one is rendered, so the progress lines are exactly the lines
\* of the events consumed before that check: a prefix of the events written.
C3_ProgressLinesArePrefix ==
    /\ \A i \in DOMAIN consumed :
          consumed[i].is_disconnected =>
              \A j \in i..Len(consumed) : ~consumed[j].yielded
    /\ Len(ProgressLines) <= Len(WrittenProgress)
    /\ \A i \in DOMAIN ProgressLines : LineOf(ProgressLines[i], WrittenProgress[i])
    /\ DisconnectObserved =>
          /\ Len(consumed) = FirstDisconnectCheck
          /\ Len(ProgressLines) =
               Cardinality({j \in 1..(FirstDisconnectCheck - 1) :
                               IsProgressEvent(consumed[j].event)})

C3_Witness ==
    /\ FirstDisconnectCheck = 3
    /\ Len(ProgressLines) = 2
    /\ Len(WrittenProgress) = 5
    /\ pc = "done"

\* C4: a run that completes without disconnect or failure emits exactly one
\* summary line, as its last line, and only once the event stream is
\* exhausted and the final result has been obtained.
C4_OneSummaryLast ==
    /\ Len(SummaryLines) <= 1
    /\ \A i \in DOMAIN lines : IsSummaryLine(lines[i]) => i = Len(lines)
    /\ SummaryLines # <<>> =>
          /\ handler.state = "done"
          /\ gpc = "done"
          /\ ~DisconnectObserved =>
                /\ streaming_queue = <<>>
                /\ consumed[Len(consumed)].event = StopEvent
                /\ Len(ProgressLines) = Len(WrittenProgress)
    /\ (gpc = "done" /\ ~DisconnectObserved /\ handler.state = "done") =>
          Len(SummaryLines) = 1

C4_Witness ==
    /\ gpc = "done"
    /\ ~disconnected
    /\ handler.state = "done"
    /\ Len(lines) = 7
    /\ IsSummaryLine(lines[7])

\* C5: retrieval's loading event is written strictly before its done event,
\* the retrieval pair before the synthesis pair, and synthesis's loading and
\* done events both strictly before any text event.
C5_EventOrder ==
    /\ Precedes(IsRetrieveLoading, IsRetrieveDone)
    /\ Precedes(IsRetrieveDone, IsSynthesizeLoading)
    /\ Precedes(IsSynthesizeLoading, IsSynthesizeDone)
    /\ Precedes(IsSynthesizeDone, IsText)
    /\ AtMostOnce(IsRetrieveLoading)
    /\ AtMostOnce(IsRetrieveDone)
    /\ AtMostOnce(IsSynthesizeLoading)
    /\ AtMostOnce(IsSynthesizeDone)

C5_Witness ==
    /\ Len(WrittenProgress) = 6
    /\ IsRetrieveLoading(written[1])
    /\ IsRetrieveDone(written[2])
    /\ IsSynthesizeLoading(written[3])
    /\ IsSynthesizeDone(written[4])
    /\ IsText(written[5])
    /\ IsText(written[6])

\* C6: a request whose message list is empty or whose last message is not
\* from the user is answered 400 and starts nothing: no run, no retriever or
\* model call, no event and no line.
C6_RejectedBeforeRun ==
    (http \in {"400", "streaming"} /\ RequestRejectable) =>
        /\ http = "400"
        /\ detail # NoneStr
        /\ pc = "idle"
        /\ handler.state = "none"
        /\ stages = <<>>
        /\ retrieverCalls = 0
        /\ llmCalls = 0
        /\ written = <<>>
        /\ lines = <<>>
        /\ gpc = "idle"

C6_Witness ==
    /\ http = "400"
    /\ Len(data_messages) = 2
    /\ data_messages[2].role = "assistant"
    /\ detail = "Last message must be from user"

\* C7: for a non-empty message list ending in a user message the run gets the
\* last message's content as query and the messages before it, in order, as
\* history; setup then succeeds and hands on a RetrieveEvent with that query.
C7_QueryAndHistory ==
    (http \in {"400", "streaming"} /\ ~RequestRejectable) =>
        LET n == Len(data_messages) IN
        /\ http = "streaming"
        /\ handler.state # "none"
        /\ startEv.has_query /\ startEv.query = data_messages[n].content
        /\ startEv.has_messages /\ Len(startEv.messages) = n - 1
        /\ \A i \in 1..(n - 1) :
              /\ startEv.messages[i].role = data_messages[i].role
              /\ startEv.messages[i].content = data_messages[i].content
        /\ stages # <<>> =>
              /\ handler.exception # "ValueError"
              /\ ev.query = data_messages[n].content
              /\ memory = startEv.messages
        /\ stages = <<"setup">> =>
              /\ pc = "retrieve"
              /\ ev.cls = "RetrieveEvent"

C7_Witness ==
    /\ http = "streaming"
    /\ Len(data_messages) = 1
    /\ stages = <<"setup">>
    /\ ev.cls = "RetrieveEvent"
    /\ ev.query = data_messages[1].content
    /\ memory = <<>>

\* C8: when query or messages is missing at setup, the run fails with the
\* input error before any ProgressEvent is written, and no later step runs.
C8_MissingInputAborts ==
    (stages # <<>> /\ (~startEv.has_query \/ ~startEv.has_messages)) =>
        /\ pc = "failed"
        /\ handler.state = "failed"
        /\ handler.exception = "ValueError"
        /\ WrittenProgress = <<>>
        /\ stages = <<"setup">>
        /\ retrieverCalls = 0
        /\ llmCalls = 0
        /\ lines = <<>>

C8_Witness ==
    /\ stages = <<"setup">>
    /\ startEv.has_query
    /\ ~startEv.has_messages
    /\ handler.exception = "ValueError"

\* C9 (as claimed): when the retriever or the model fails after streaming has
\* begun, the transport reports it with an error-typed line (code "3").
C9_ErrorLineOnFailure ==
    (gpc \in {"done", "raised"} /\ handler.exception \in {"RetrieverError", "LLMError"}) =>
        \E i \in DOMAIN lines : lines[i].code = "3"

\* C10: the retriever and the model are each called at most once per run; a
\* retriever failure means no retrieval done event, no synthesis event and no
\* model call; a failed run never gets a result.
C10_FailureState ==
    /\ retrieverCalls <= 1
    /\ llmCalls <= 1
    /\ handler.exception = "RetrieverError" =>
          /\ \A i \in DOMAIN written :
                ~IsRetrieveDone(written[i]) /\ ~IsSynthesizeLoading(written[i])
                    /\ ~IsSynthesizeDone(written[i]) /\ ~IsText(written[i])
          /\ llmCalls = 0
          /\ "synthesize" \notin {stages[i] : i \in DOMAIN stages}
    /\ handler.exception \in {"RetrieverError", "LLMError"} =>
          /\ handler.state = "failed"
          /\ pc = "failed"
          /\ handler.response = NoneStr
          /\ SummaryLines = <<>>

C10_NoRetry ==
    /\ []C10_FailureState
    /\ [][handler.state = "failed" =>
            /\ handler' = handler
            /\ pc' = pc
            /\ retrieverCalls' = retrieverCalls
            /\ llmCalls' = llmCalls
            /\ written' = written]_vars

C10_Witness ==
    /\ handler.exception = "RetrieverError"
    /\ retrieverCalls = 1
    /\ gpc = "raised"

\* the workflow's steps, in the order their events chain them
StageOrder == <<"setup", "retrieve", "post_process", "synthesize">>

\* C11: the steps of a run are entered in the order setup, retrieve,
\* post_process, synthesize, each at most once; a step is entered only when
\* the producer stands at it (no other step is suspended in an await), and
\* only synthesize, after the other three, gives the run its result.
C11_StagesInOrder ==
    /\ Len(stages) <= Len(StageOrder)
    /\ \A i \in DOMAIN stages : stages[i] = StageOrder[i]
    /\ pc \in {"aretrieve"} => stages[Len(stages)] = "retrieve"
    /\ pc \in {"astream_chat", "streaming"} => stages[Len(stages)] = "synthesize"
    /\ handler.state = "done" => stages = StageOrder

C11_Sequential ==
    /\ []C11_StagesInOrder
    /\ [][stages' # stages =>
            /\ Len(stages) < Len(StageOrder)
            /\ stages' = Append(stages, StageOrder[Len(stages) + 1])
            /\ pc = StageOrder[Len(stages) + 1]]_vars
    /\ [][(handler.state # "done" /\ handler'.state = "done") =>
            /\ pc = "streaming"
            /\ stages = StageOrder]_vars

C11_Witness ==
    /\ stages = StageOrder
    /\ handler.state = "done"
    /\ pc = "done"

DataLine(status, message) ==
    [code |-> "2",
     payload |-> [json_array |-> <<[type |-> "data", status |-> status, message |-> message]>>]]

TextLine(message) == [code |-> "0", payload |-> [json_string |-> message]]

\* C12: a run without disconnect or failure in which retrieval returned K
\* nodes and the model streamed n chunks yields the two retrieval lines, the
\* two synthesis lines, n text lines with the deltas in order and one summary
\* line: 4 + n + 1 lines, none of them from post_process.
C12_ExactOutput ==
    (gpc = "done" /\ ~DisconnectObserved) =>
        LET K == Len(handler.source_nodes)
            n == nchunks
        IN  /\ handler.state = "done"
            /\ Len(lines) = 4 + n + 1
            /\ lines[1] = DataLine("loading", "Retrieving relevant nodes...")
            /\ lines[2] = DataLine("done", "Retrieved " \o ToString(K)
                                            \o " relevant nodes for context.")
            /\ lines[3] = DataLine("loading", "Synthesizing response...")
            /\ lines[4] = DataLine("done", "Finished creating response stream.")
            /\ \A i \in 1..n : lines[4 + i] = TextLine(Delta(i))
            /\ IsSummaryLine(lines[4 + n + 1])
            /\ lines[4 + n + 1].code = "2"

C12_Witness ==
    /\ gpc = "done"
    /\ ~DisconnectObserved
    /\ Len(handler.source_nodes) = 3
    /\ nchunks = 2
    /\ Len(lines) = 7
    /\ lines[2] = DataLine("done", "Retrieved 3 relevant nodes for context.")

WasYielded(c) == c.yielded

\* the events event_generator rendered, in order
Yielded == SelectSeq(consumed, WasYielded)

\* C13: every ProgressEvent rendered gives exactly one line: a text event the
\* code "0" with only its message as payload, any other the code of its type
\* ("2" for data) with a one-element array holding the record (status,
\* message, type).
C13_LineFormat ==
    /\ Len(ProgressLines) = Len(Yielded)
    /\ \A i \in DOMAIN Yielded :
          LET e == Yielded[i].event
              l == ProgressLines[i]
          IN  /\ IsProgressEvent(e)
              /\ IF e.type = "text"
                 THEN l = [code |-> "0", payload |-> [json_string |-> e.message]]
                 ELSE /\ e.type = "data"
                      /\ l = [code |-> "2",
                              payload |-> [json_array |->
                                  <<[status |-> e.status, message |-> e.message,
                                     type |-> e.type]>>]]

C13_Witness ==
    /\ Len(Yielded) = 5
    /\ Yielded[4].event.type = "data"
    /\ Yielded[5].event.type = "text"
    /\ lines[4].code = "2"
    /\ lines[5] = [code |-> "0", payload |-> [json_string |-> "d1"]]

\* ------------------------------------------- the transport, taken on its own
\* event_generator fed with any stream of events: ProgressEvents and events
\* of other types in any order, closed by the StopEvent; the run has finished
\* before the first event is taken
MaxStream == 3      \* most events ahead of the StopEvent

OtherEvent == [cls |-> "Event"]

StreamEvents == {RetrieveLoading, TextChunk(Delta(1)), OtherEvent}

TransportInit ==
    /\ system_prompt = NoneStr
    /\ data_messages = <<[role |-> "user", content |-> "a"]>>
    /\ http = "streaming"
    /\ detail = NoneStr
    /\ startEv = ChatKwargs(data_messages)
    /\ pc = "done"
    /\ stages = <<"setup", "retrieve", "post_process", "synthesize">>
    /\ memory = <<>>
    /\ ev = SynthesizeEvent("a", <<>>)
    /\ chat_history = BuildChatHistory(<<>>, "a", <<>>, NoneStr)
    /\ nchunks = 1
    /\ \E body \in SeqsUpTo(StreamEvents, MaxStream) :
          /\ streaming_queue = Append(body, StopEvent)
          /\ written = Append(body, StopEvent)
    /\ handler = [state |-> "done", exception |-> NoneStr, query |-> "a",
                  messages |-> chat_history, response |-> Accumulated(1),
                  source_nodes |-> <<>>]
    /\ retrieverCalls = 1
    /\ llmCalls = 1
    /\ gpc = "loop"
    /\ disconnected = FALSE
    /\ consumed = <<>>
    /\ lines = <<>>

TransportNext ==
    \/ event_generator_next
    \/ event_generator_final
    \/ client_disconnect

TransportSpec == TransportInit /\ [][TransportNext]_vars

\* C14: an event that is no ProgressEvent gives no line and does not end the
\* loop: the events after it are still taken, and the progress lines are as
\* many as the ProgressEvents taken before any disconnect.
C14_NonProgressSkipped ==
    /\ \A i \in DOMAIN consumed :
          ~IsProgressEvent(consumed[i].event) => ~consumed[i].yielded
    /\ Len(ProgressLines) =
          Cardinality({i \in DOMAIN consumed :
                          IsProgressEvent(consumed[i].event) /\ ~consumed[i].is_disconnected})
    /\ (consumed # <<>> /\ ~DisconnectObserved
            /\ consumed[Len(consumed)].event # StopEvent) => gpc = "loop"
    /\ (LoopEnded /\ ~DisconnectObserved) =>
          /\ streaming_queue = <<>>
          /\ Len(consumed) = Len(written)
          /\ \A i \in DOMAIN consumed : consumed[i].event = written[i]

C14_Witness ==
    /\ Len(consumed) = 4
    /\ consumed[1].event = OtherEvent
    /\ consumed[2].yielded
    /\ consumed[3].event = OtherEvent
    /\ consumed[4].event = StopEvent
    /\ Len(ProgressLines) = 1
    /\ gpc = "done"

\* the text of the text events in a sequence of events, joined in order
RECURSIVE TextOf(_)
TextOf(events) ==
    IF events = <<>> THEN ""
    ELSE (IF IsText(Head(events)) THEN Head(events).message ELSE "") \o TextOf(Tail(events))

LastOf(seq) == seq[Len(seq)]

\* C15 (as claimed): the result's message history ends with the assistant's
\* final message, and the result holds the full response text and the source
\* nodes passed to synthesis.
C15_ResultEndsWithAssistant ==
    handler.state = "done" =>
        /\ handler.messages # <<>>
        /\ LastOf(handler.messages).role = "assistant"
        /\ LastOf(handler.messages).content = handler.response
        /\ handler.response = TextOf(written)
        /\ handler.source_nodes = ev.nodes

\* C15 (amended): the result's messages are the list sent to the model, which
\* ends with the context-augmented user turn and holds no assistant message
\* for the response; the result holds the full response text and the source
\* nodes passed to synthesis.
C15_ResultIsModelInput ==
    handler.state = "done" =>
        /\ handler.messages = chat_history
        /\ handler.messages # <<>>
        /\ LastOf(handler.messages) =
              [role |-> "user", content |-> CONTEXT_PROMPT(Join(ev.nodes), ev.query)]
        /\ Len(handler.messages) <= Len(memory) + 2
        /\ \A i \in DOMAIN handler.messages :
              handler.messages[i].content # handler.response
        /\ handler.response = TextOf(written)
        /\ ev.cls = "SynthesizeEvent"
        /\ handler.source_nodes = ev.nodes
        /\ handler.query = ev.query

C15_Witness ==
    /\ handler.state = "done"
    /\ nchunks = 2
    /\ handler.response = "d1d2"
    /\ Len(handler.source_nodes) = 2
    /\ Len(handler.messages) = 3
    /\ handler.messages[1].role = "system"
    /\ handler.messages[2].role = "assistant"
    /\ handler.messages[3].role = "user"

\* the response stream was opened and the run ended without a model failure
\* and without a single chunk
EndedOnEmptyStream ==
    /\ pc \in {"done", "failed"}
    /\ \E i \in DOMAIN written : IsSynthesizeDone(written[i])
    /\ handler.exception # "LLMError"
    /\ nchunks = 0

\* C16 (as claimed): when the model streams zero chunks the run still ends
\* normally with an empty response text, no text event is written, and the
\* transport still emits the summary line.
C16_EmptyStreamEndsNormally ==
    EndedOnEmptyStream =>
        /\ handler.state = "done"
        /\ handler.response = ""
        /\ \A i \in DOMAIN written : ~IsText(written[i])
        /\ (http = "streaming" /\ gpc \in {"done", "raised"} /\ ~DisconnectObserved) =>
              Len(SummaryLines) = 1

\* the context-augmented user turn of the run
ContextTurn == [role |-> "user", content |-> CONTEXT_PROMPT(Join(ev.nodes), ev.query)]

PromptConfigured == system_prompt \notin {NoneStr, ""}

\* the Memory Buffer a following setup builds from the result's messages
RoundTripMemory == from_defaults(handler.messages)

\* memory.get returned the buffer's whole history: it stands in the list sent
\* to the model, right ahead of the context-augmented turn
HistoryKeptWhole ==
    /\ Len(chat_history) > Len(memory)
    /\ SubSeq(chat_history, Len(chat_history) - Len(memory), Len(chat_history) - 1) = memory

\* C17 (as claimed): for every run, with or without a system prompt, the
\* result's messages fed into a following setup give a Memory Buffer whose
\* turns are the original history followed by the context-augmented user
\* turn, and nothing else (stated for the runs whose buffer returned its
\* whole history, the case most favourable to the claim).
C17_RoundTripAlways ==
    (handler.state = "done" /\ HistoryKeptWhole) =>
        RoundTripMemory = Append(memory, ContextTurn)

\* C17 (amended): that holds when no system prompt is configured and the first
\* run's buffer returned its whole history; with a system prompt configured
\* the turns start with the system message in addition, and a buffer that
\* returned only its newest messages leaves out the older ones.
C17_RoundTrip ==
    handler.state = "done" =>
        /\ (~PromptConfigured /\ HistoryKeptWhole) =>
              RoundTripMemory = Append(memory, ContextTurn)
        /\ (PromptConfigured /\ HistoryKeptWhole) =>
              RoundTripMemory =
                  <<[role |-> "system", content |-> system_prompt]>>
                      \o Append(memory, ContextTurn)
        /\ \E kept \in 0..Len(memory) :
              RoundTripMemory =
                  (IF PromptConfigured
                   THEN <<[role |-> "system", content |-> system_prompt]>> ELSE <<>>)
                  \o SubSeq(memory, Len(memory) - kept + 1, Len(memory))
                  \o <<ContextTurn>>

C17_Witness ==
    /\ handler.state = "done"
    /\ ~PromptConfigured
    /\ Len(memory) = 1
    /\ HistoryKeptWhole
    /\ RoundTripMemory = Append(memory, ContextTurn)

SystemMessage == [role |-> "system", content |-> system_prompt]

\* C18: the list sent to the model is the history the Memory Buffer returned
\* followed by exactly one context-augmented user turn, its last element; it
\* starts with the system message of the configured prompt if and only if a
\* prompt is configured (None and "" both mean none).
C18_ModelInput ==
    llmCalls = 1 =>
        /\ chat_history # <<>>
        /\ LastOf(chat_history) = ContextTurn
        /\ Cardinality({i \in DOMAIN chat_history : chat_history[i] = ContextTurn}) = 1
        /\ (chat_history[1] = SystemMessage) <=> PromptConfigured
        /\ LET lead == IF PromptConfigured THEN 1 ELSE 0
               history == SubSeq(chat_history, lead + 1, Len(chat_history) - 1)
           IN  /\ Len(history) <= Len(memory)
               /\ history = SubSeq(memory, Len(memory) - Len(history) + 1, Len(memory))

C18_Witness ==
    /\ llmCalls = 1
    /\ system_prompt = ""
    /\ Len(memory) = 1
    /\ chat_history = <<memory[1], ContextTurn>>

\* what the producer owns; the queue is left out, the consumer takes from it
ProducerState == <<startEv, pc, stages, memory, ev, chat_history, nchunks, written,
                   handler, retrieverCalls, llmCalls>>

ProducerStep ==
    \/ setup
    \/ retrieve_begin
    \/ retrieve_return
    \/ retrieve_raise
    \/ post_process
    \/ synthesize_begin
    \/ synthesize_opened
    \/ synthesize_raise
    \/ synthesize_chunk
    \/ synthesize_return

\* C19: a disconnect only stops the consumer: no step of the transport and no
\* disconnect changes anything the producer owns, and after the disconnect
\* was seen a run that has not ended can still take its next step.
C19_Cooperative ==
    /\ [][(http = "streaming"
            /\ (disconnected' # disconnected \/ gpc' # gpc
                  \/ consumed' # consumed \/ lines' # lines))
          => UNCHANGED ProducerState]_vars
    /\ []((DisconnectObserved /\ pc \notin {"done", "failed"}) => ENABLED ProducerStep)

C19_Witness ==
    /\ FirstDisconnectCheck = 1
    /\ consumed[1].event = RetrieveLoading
    /\ gpc = "done"
    /\ pc = "done"
    /\ handler.state = "done"
    /\ retrieverCalls = 1
    /\ llmCalls = 1
    /\ Len(streaming_queue) = 6

\* C20 (as claimed, as the end state its liveness leads to): for a valid
\* request whose retriever returns, whose model streams a finite, non-failing
\* chunk stream and whose client never disconnects, the transport ends only
\* with the run at its terminal result and the summary line emitted.
C20_EndsWithSummary ==
    (http = "streaming" /\ ~disconnected
        /\ handler.exception \notin {"RetrieverError", "LLMError"}
        /\ gpc \in {"done", "raised"}) =>
        /\ handler.state = "done"
        /\ gpc = "done"
        /\ Len(SummaryLines) = 1

====
